---- MODULE Spec2Model ----
(***************************************************************************)
(* Grasp sampling of dex-net (src/dexnet/grasping/grasp_sampler.py) and    *)
(* its termination conditions (src/dexnet/learning).                       *)
(*                                                                         *)
(* One variable per routine holds that routine's local state as a record   *)
(* whose fields carry the names of the Python locals:                      *)
(*   gg  GraspSampler.generate_grasps                                      *)
(*   tr  one trial of AntipodalGraspSampler.sample_grasps (lines 467-544)  *)
(*   ag  AntipodalGraspSampler.sample_grasps                               *)
(*   ug  UniformGraspSampler.sample_grasps                                 *)
(*   ga  GaussianGraspSampler.sample_grasps                                *)
(*   ds  GraspSampler.down_sample_grasps                                   *)
(*   sp  GraspSampler.generate_grasps_stable_poses                         *)
(*   tc  a call of a termination condition (termination_conditions.py)     *)
(* Each routine has its own specification (SpecGenerate, ...); the         *)
(* variables of the other routines stay at their idle value.               *)
(*                                                                         *)
(* Lists that the code shuffles before anybody reads them are modelled as  *)
(* sets of grasps: random.shuffle followed by a prefix slice is the choice *)
(* of an arbitrary subset of the slice's size.                             *)
(***************************************************************************)
EXTENDS Integers, Sequences, FiniteSets, TLC

VARIABLES gg, tr, ag, ug, ga, ds, sp, tc

vars == <<gg, tr, ag, ug, ga, ds, sp, tc>>

\* The value of a routine's variable while the routine is not running.
Idle == [pc |-> "idle"]

\* What a step of one routine leaves alone: the other routines.
OtherThanGenerate == <<tr, ag, ug, ga, ds, sp, tc>>
OtherThanTrial == <<gg, ag, ug, ga, ds, sp, tc>>
OtherThanAntipodal == <<gg, tr, ug, ga, ds, sp, tc>>
OtherThanUniform == <<gg, tr, ag, ga, ds, sp, tc>>
OtherThanGaussian == <<gg, tr, ag, ug, ds, sp, tc>>
OtherThanDownSample == <<gg, tr, ag, ug, ga, sp, tc>>
OtherThanStablePoses == <<gg, tr, ag, ug, ga, ds, tc>>
OtherThanTermination == <<gg, tr, ag, ug, ga, ds, sp>>

Min(a, b) == IF a < b THEN a ELSE b
Max1(a) == IF a < 1 THEN 1 ELSE a

(***************************************************************************)
(* Bounds of the model.                                                    *)
(***************************************************************************)
MaxTarget == 2     \* largest target_num_grasps_per_size of the general runs
MaxRatios == 2     \* longest openning_ratios list of the general runs
MaxIter == 2       \* largest max_iter of the general runs
MaxBatch == 2      \* most grasps one sample_grasps call returns

(***************************************************************************)
(* GraspSampler.generate_grasps                                            *)
(***************************************************************************)

\* The orchestrator scenario of the documentation: target 20, ratios
\* [0.5, 1.0] (in tenths), max_iter 3, a sampler returning 7 grasps per call.
Scenario ==
    [target_num_grasps_per_size |-> 20, openning_ratios |-> <<5, 10>>,
     max_iter |-> 3, batches |-> {7}]

\* Configurations generate_grasps is run with: the config keys
\* target_num_grasps_per_size and openning_ratios, the argument max_iter, and
\* the sizes of the lists the sampler strategy may return.
GenerateConfigs ==
    {Scenario} \cup
    { [target_num_grasps_per_size |-> t, openning_ratios |-> rs,
       max_iter |-> m, batches |-> 0..MaxBatch] :
         t \in 0..MaxTarget,
         rs \in { [j \in 1..n |-> 5 * j] : n \in 0..MaxRatios },
         m \in 0..MaxIter }

\* All the d-element subsets of S.
RECURSIVE SubsetsOfSize(_, _)
SubsetsOfSize(S, d) ==
    IF d = 0 THEN {{}}
    ELSE UNION { { T \cup {x} : T \in SubsetsOfSize(S \ {x}, d - 1) } : x \in S }

\* Line 220: the list one sample_grasps call returns, b fresh grasps tagged
\* with the ratio index and the round that produced them.
NewGrasps(ratio_id, k, b) ==
    { [ratio |-> ratio_id, round |-> k, n |-> j] : j \in 1..b }

\* Line 218: the loop condition of the sampling rounds.
WhileConditionNoCap(s) == s.num_grasps_remaining > 0
WhileConditionNoStop(s) == s.k <= s.max_iter
WhileCondition(s) == s.num_grasps_remaining > 0 /\ s.k <= s.max_iter

\* Lines 228-232: random.shuffle(cur_grasps), then the slice
\* cur_grasps[:target] when the list is longer than the target.  The result
\* is any subset of that size; a shorter list is left as it is.
NoTruncate(cur_grasps, target) == {cur_grasps}
ShuffleAndTruncate(cur_grasps, target) ==
    IF Cardinality(cur_grasps) > target
    THEN { cur_grasps \ D :
             D \in SubsetsOfSize(cur_grasps, Cardinality(cur_grasps) - target) }
    ELSE {cur_grasps}

\* Line 437: the parameters of AntipodalGraspSampler.sample_grasps besides
\* self, and line 220: the ones generate_grasps passes by position.
SampleGraspsParameters ==
    {"graspable", "openning_ratio_id", "openning_ratios", "vis"}
PositionalArguments ==
    {"graspable", "openning_ratio_id", "openning_ratios", "vis"}

\* Line 220: sample_grasps(graspable, openning_ratio_id, openning_ratios,
\* vis, **kwargs) binds its arguments only if every keyword of kwargs names
\* a parameter that no positional argument has taken; Python raises
\* TypeError otherwise.
AcceptsKeywords(kwargs) ==
    kwargs \subseteq (SampleGraspsParameters \ PositionalArguments)

\* Lines 210-213: the locals of generate_grasps on entry, for the
\* configuration c and the extra keyword arguments kwargs (their names).
GenerateEntry(c, kwargs) ==
    [pc |-> "for",
     target_num_grasps_per_size |-> c.target_num_grasps_per_size,
     openning_ratios |-> c.openning_ratios,
     max_iter |-> c.max_iter,
     batches |-> c.batches,
     kwargs |-> kwargs,
     grasps |-> {},
     openning_ratio_id |-> 0,
     num_grasps_remaining |-> 0,
     cur_grasps |-> {},
     k |-> 0,
     calls |-> [r \in 1..Len(c.openning_ratios) |-> 0],
     sampled |-> [r \in 1..Len(c.openning_ratios) |-> 0]]

\* A direct call of generate_grasps, with no extra keyword argument.
InitGenerate ==
    /\ tr = Idle /\ ag = Idle /\ ug = Idle /\ ga = Idle /\ ds = Idle /\ sp = Idle
    /\ tc = Idle
    /\ \E c \in GenerateConfigs : gg = GenerateEntry(c, {})

\* Lines 214-217: the for loop enters the next ratio with an empty
\* accumulator.  openning_ratio_id is the 0-based Python index.
ForRatio ==
    /\ gg.pc = "for"
    /\ gg.openning_ratio_id < Len(gg.openning_ratios)
    /\ gg' = [gg EXCEPT !.pc = "while",
                        !.num_grasps_remaining = gg.target_num_grasps_per_size,
                        !.cur_grasps = {},
                        !.k = 1]
    /\ UNCHANGED OtherThanGenerate

\* Lines 218-226: one round; the sampler strategy is invoked once and the
\* grasps it returns are appended.  calls and sampled count, per ratio, the
\* invocations made and the grasps they returned.
SampleRound ==
    /\ gg.pc = "while"
    /\ WhileCondition(gg)
    /\ AcceptsKeywords(gg.kwargs)
    /\ \E b \in gg.batches :
         LET r == gg.openning_ratio_id + 1
             cur == gg.cur_grasps \cup NewGrasps(gg.openning_ratio_id, gg.k, b)
         IN gg' = [gg EXCEPT
                     !.cur_grasps = cur,
                     !.num_grasps_remaining =
                         gg.target_num_grasps_per_size - Cardinality(cur),
                     !.k = gg.k + 1,
                     !.calls[r] = @ + 1,
                     !.sampled[r] = @ + b]
    /\ UNCHANGED OtherThanGenerate

\* Line 220: the call of sample_grasps raises TypeError; generate_grasps
\* catches nothing, and neither does generate_grasps_stable_poses when it is
\* the caller (line 174).
SampleRaise ==
    /\ gg.pc = "while"
    /\ WhileCondition(gg)
    /\ ~AcceptsKeywords(gg.kwargs)
    /\ gg' = [gg EXCEPT !.pc = "raised"]
    /\ sp' = IF sp.pc = "generate" THEN [sp EXCEPT !.pc = "raised"] ELSE sp
    /\ UNCHANGED <<tr, ag, ug, ga, ds, tc>>

\* Lines 227-233: the rounds are over; shuffle, truncate, concatenate.
EndRatio ==
    /\ gg.pc = "while"
    /\ ~WhileCondition(gg)
    /\ \E kept \in ShuffleAndTruncate(gg.cur_grasps, gg.target_num_grasps_per_size) :
         gg' = [gg EXCEPT !.pc = "for",
                          !.cur_grasps = kept,
                          !.grasps = gg.grasps \cup kept,
                          !.openning_ratio_id = gg.openning_ratio_id + 1]
    /\ UNCHANGED OtherThanGenerate

\* Lines 235-238: the final shuffle and the return.
ReturnGrasps ==
    /\ gg.pc = "for"
    /\ gg.openning_ratio_id = Len(gg.openning_ratios)
    /\ gg' = [gg EXCEPT !.pc = "done"]
    /\ UNCHANGED OtherThanGenerate

NextGenerate == ForRatio \/ SampleRound \/ EndRatio \/ ReturnGrasps

SpecGenerate == InitGenerate /\ [][NextGenerate]_vars

(***************************************************************************)
(* Properties of generate_grasps                                           *)
(***************************************************************************)

\* The grasps of ratio index r (1-based) in the list built so far.
Contributed(r) == { g \in gg.grasps : g.ratio = r - 1 }

\* The ratios whose bucket has been appended to the result.
FinishedRatios == 1..gg.openning_ratio_id

IsScenario ==
    /\ gg.target_num_grasps_per_size = Scenario.target_num_grasps_per_size
    /\ gg.openning_ratios = Scenario.openning_ratios
    /\ gg.max_iter = Scenario.max_iter
    /\ gg.batches = Scenario.batches

\* C1: every opening ratio is processed with its own accumulator, which
\* starts empty and holds exactly the grasps the sample_grasps calls of that
\* ratio returned; the ratio contributes min(target_num_grasps_per_size,
\* grasps returned for it) grasps to the result: an overshoot is cut to the
\* target, an undershoot is not padded.  In the documented scenario (target
\* 20, two ratios, max_iter 3, 7 grasps per call) each ratio contributes 20
\* grasps and 40 are returned.
C1_PerRatioCount ==
    /\ gg.pc = "while" =>
         /\ \A g \in gg.cur_grasps : g.ratio = gg.openning_ratio_id
         /\ Cardinality(gg.cur_grasps) = gg.sampled[gg.openning_ratio_id + 1]
    /\ gg.pc \in {"for", "done"} =>
         \A r \in FinishedRatios :
             Cardinality(Contributed(r)) =
                 Min(gg.target_num_grasps_per_size, gg.sampled[r])
    /\ (gg.pc = "done" /\ IsScenario) =>
         /\ \A r \in 1..2 : Cardinality(Contributed(r)) = 20
         /\ Cardinality(gg.grasps) = 40

\* The scenario has run to its end: both ratios overshot (21 grasps) and
\* were cut to 20.
C1_Witness ==
    /\ gg.pc = "done"
    /\ IsScenario
    /\ \A r \in 1..2 : gg.sampled[r] = 21
    /\ Cardinality(gg.grasps) = 40

C2_Inv ==
    /\ \A r \in 1..Len(gg.openning_ratios) : gg.calls[r] <= gg.max_iter
    /\ gg.pc \in {"for", "done"} =>
         \A r \in FinishedRatios :
             gg.sampled[r] < gg.target_num_grasps_per_size =>
                 /\ gg.calls[r] = gg.max_iter
                 /\ Cardinality(Contributed(r)) = gg.sampled[r]

C2_Step ==
    gg'.calls # gg.calls =>
        /\ gg.pc = "while"
        /\ Cardinality(gg.cur_grasps) < gg.target_num_grasps_per_size
        /\ gg'.k = gg.k + 1
        /\ gg'.calls = [gg.calls EXCEPT ![gg.openning_ratio_id + 1] = @ + 1]

\* An upper bound on the steps generate_grasps still has to take.
StepsLeft ==
    LET ratios_left == Len(gg.openning_ratios) - gg.openning_ratio_id
        per_ratio == gg.max_iter + 2
    IN CASE gg.pc = "for" -> ratios_left * per_ratio + 1
         [] gg.pc = "while" ->
              (gg.max_iter - gg.k + 1) + 1 + (ratios_left - 1) * per_ratio + 1
         [] OTHER -> 0

RECURSIVE SumCalls(_)
SumCalls(r) == IF r = 0 THEN 0 ELSE gg.calls[r] + SumCalls(r - 1)

\* C2: for every ratio the sampler strategy is invoked once per round and at
\* most max_iter times, never once the accumulator holds
\* target_num_grasps_per_size grasps; a ratio that stays short ends after
\* exactly max_iter invocations and its short bucket is returned as it is;
\* generate_grasps terminates (it is never stuck before its return, and
\* every step brings the return closer) after at most
\* len(openning_ratios) * max_iter invocations.
C2_BoundedRounds ==
    /\ [](C2_Inv)
    /\ [](SumCalls(Len(gg.openning_ratios)) <= Len(gg.openning_ratios) * gg.max_iter)
    /\ [](StepsLeft >= 0 /\ (gg.pc = "done" \/ ENABLED NextGenerate))
    /\ [][C2_Step /\ StepsLeft' < StepsLeft]_vars

\* A run that returned with a ratio left short after max_iter >= 2 rounds.
C2_Witness ==
    /\ gg.pc = "done"
    /\ gg.max_iter >= 2
    /\ \E r \in 1..Len(gg.openning_ratios) :
         /\ gg.calls[r] = gg.max_iter
         /\ gg.sampled[r] > 0
         /\ gg.sampled[r] < gg.target_num_grasps_per_size

(***************************************************************************)
(* AntipodalGraspSampler.sample_grasps: one trial (lines 467-544)          *)
(*                                                                         *)
(* Lengths are integers in units of gripper.max_width / RatioSteps, and an *)
(* opening ratio is stored as its numerator over RatioSteps, so that       *)
(* openning_ratios[j] * gripper.max_width is a whole number of units.      *)
(* Positions along the grasp axis are measured from the centre of the      *)
(* grasp that the contact search returns.                                  *)
(***************************************************************************)
RatioSteps == 2        \* opening ratios are 1/RatioSteps .. RatioSteps/RatioSteps
MaxTrialRatios == 2    \* longest openning_ratios list of a trial

\* self.gripper.max_width, in units.
GripperMaxWidth == RatioSteps

\* Lines 499 and 538: openning_ratios[index] * self.gripper.max_width, for a
\* 0-based index.
OpenWidth(openning_ratios, index) ==
    (openning_ratios[index + 1] * GripperMaxWidth) \div RatioSteps

\* The openning_ratios lists a caller may configure, in any order.
RatioLists ==
    UNION { [1..n -> 1..RatioSteps] : n \in 1..MaxTrialRatios }

\* The widths the sampler can give a grasp.
Widths == 1..GripperMaxWidth

\* What the object geometry answers to the calls of one trial:
\*   cone_x1        Contact3D.friction_cone succeeds at the perturbed point
\*   search         grasp_from_contact_and_axis_on_grid: "none" (no grasp),
\*                  "no_c2" (a grasp but no second contact), "found"
\*   close          close_fingers succeeds on the grasp as the search built it
\*   sep, offset    separation of the true contacts, and position of their
\*                  midpoint
\*   cone_c1/c2     friction_cone succeeds at the true contacts
\*   force_closure  PointGraspMetrics3D.force_closure of the true contacts
\*   closes_at      the widths at which close_fingers succeeds on a grasp
\*                  centred at the true contacts' midpoint
\* The sampler has no influence on these answers: every combination is
\* possible, also for the calls a trial does not reach.
NoClosure ==
    [close |-> FALSE, sep |-> 0, offset |-> 0, cone_c1 |-> FALSE,
     cone_c2 |-> FALSE, force_closure |-> FALSE, closes_at |-> {}]

\* Where the midpoint of the true contacts lies: on the estimated centre (0)
\* or away from it (1).
Offsets == {0, 1}

\* close_fingers is a function of the object and of the grasp's centre, axis
\* and width: the fingers start grasp_width apart, so the contacts they find
\* are at most that far apart, and a grasp whose centre did not move closes
\* at grasp_width exactly when it closed before.  (closes_at is read only
\* after force closure; without it the set is left at its least value.)
Closures(grasp_width) ==
    {NoClosure}
    \cup { g \in { [close |-> TRUE, sep |-> d, offset |-> o, cone_c1 |-> a,
                     cone_c2 |-> b, force_closure |-> f, closes_at |-> C] :
                      d \in 0..grasp_width, o \in Offsets,
                      a \in BOOLEAN, b \in BOOLEAN, f \in BOOLEAN,
                      C \in SUBSET Widths } :
             /\ g.offset = 0 => grasp_width \in g.closes_at
             /\ ~g.force_closure =>
                  g.closes_at = IF g.offset = 0 THEN {grasp_width} ELSE {} }

Geometries(grasp_width) ==
    { [cone_x1 |-> c, search |-> s, close |-> g.close, sep |-> g.sep,
       offset |-> g.offset, cone_c1 |-> g.cone_c1, cone_c2 |-> g.cone_c2,
       force_closure |-> g.force_closure, closes_at |-> g.closes_at] :
        c \in BOOLEAN, s \in {"none", "no_c2", "found"},
        g \in Closures(grasp_width) }

\* grasp.close_fingers(graspable) for a grasp at the given centre and width.
CloseFingers(t, center, width) ==
    IF center = t.offset THEN width \in t.closes_at ELSE t.close

\* Line 509: the contact search gave no grasp or no second contact.
NoContactOnlyGrasp(t) == t.search = "none"
NoContact(t) == t.search # "found"

\* Line 519: the true contacts are closer than min_contact_dist.
TooNarrowNever(sep, min_contact_dist) == FALSE
TooNarrow(sep, min_contact_dist) == sep < min_contact_dist

\* Lines 536-543: scan the ratio indices from index up to openning_ratio_id,
\* set the width of each, keep the first at which the fingers close; a
\* failure restores the original width.  The result is the grasp's width.
RECURSIVE ScanKeepLast(_, _, _, _, _, _)
ScanKeepLast(t, center, ratios, ratio_id, index, original_max_width) ==
    IF index >= ratio_id
    THEN IF index = 0 THEN original_max_width ELSE OpenWidth(ratios, index - 1)
    ELSE LET w == OpenWidth(ratios, index)
         IN IF CloseFingers(t, center, w) THEN w
            ELSE ScanKeepLast(t, center, ratios, ratio_id, index + 1,
                              original_max_width)

RECURSIVE ScanAllRatios(_, _, _, _, _, _)
ScanAllRatios(t, center, ratios, ratio_id, index, original_max_width) ==
    IF index >= Len(ratios) THEN original_max_width
    ELSE LET w == OpenWidth(ratios, index)
         IN IF CloseFingers(t, center, w) THEN w
            ELSE ScanAllRatios(t, center, ratios, ratio_id, index + 1,
                               original_max_width)

RECURSIVE MinimizeWidth(_, _, _, _, _, _)
MinimizeWidth(t, center, ratios, ratio_id, index, original_max_width) ==
    IF index >= ratio_id THEN original_max_width
    ELSE LET w == OpenWidth(ratios, index)
         IN IF CloseFingers(t, center, w) THEN w
            ELSE MinimizeWidth(t, center, ratios, ratio_id, index + 1,
                               original_max_width)

\* A trial that produced no grasp, after the calls listed.
Dropped(calls) ==
    [accepted |-> FALSE, calls |-> calls]

\* Lines 467-544: one trial on the geometry t.  calls lists the geometric
\* calls made, in order, up to the force-closure test.
Trial(openning_ratios, openning_ratio_id, min_contact_dist, t) ==
    LET grasp_width == OpenWidth(openning_ratios, openning_ratio_id)
    IN
    IF ~t.cone_x1 THEN Dropped(<<"cone_x1">>)
    ELSE IF NoContact(t) THEN Dropped(<<"cone_x1", "search">>)
    ELSE IF ~CloseFingers(t, 0, grasp_width)
         THEN Dropped(<<"cone_x1", "search", "close_fingers">>)
    ELSE IF TooNarrow(t.sep, min_contact_dist)
         THEN Dropped(<<"cone_x1", "search", "close_fingers">>)
    ELSE IF ~t.cone_c1
         THEN Dropped(<<"cone_x1", "search", "close_fingers", "cone_c1">>)
    ELSE IF ~t.cone_c2
         THEN Dropped(<<"cone_x1", "search", "close_fingers", "cone_c1",
                        "cone_c2">>)
    ELSE IF ~t.force_closure
         THEN Dropped(<<"cone_x1", "search", "close_fingers", "cone_c1",
                        "cone_c2", "force_closure">>)
    ELSE [accepted |-> TRUE,
          calls |-> <<"cone_x1", "search", "close_fingers", "cone_c1",
                      "cone_c2", "force_closure">>,
          original_max_width |-> grasp_width,
          grasp |-> [center |-> t.offset,
                     max_grasp_width_ |->
                         MinimizeWidth(t, t.offset, openning_ratios,
                                       openning_ratio_id, 0, grasp_width)]]

\* The configurations a trial runs under.
TrialConfigs ==
    { [openning_ratios |-> rs, openning_ratio_id |-> id, min_contact_dist |-> m] :
        rs \in RatioLists, id \in 0..(MaxTrialRatios - 1), m \in 0..GripperMaxWidth }

InitTrial ==
    /\ gg = Idle /\ ag = Idle /\ ug = Idle /\ ga = Idle /\ ds = Idle /\ sp = Idle
    /\ tc = Idle
    /\ \E c \in TrialConfigs :
         /\ c.openning_ratio_id < Len(c.openning_ratios)
         /\ tr = [pc |-> "trial",
                  openning_ratios |-> c.openning_ratios,
                  openning_ratio_id |-> c.openning_ratio_id,
                  min_contact_dist |-> c.min_contact_dist]

\* One iteration of the loop of line 467 on some geometry.
RunTrial ==
    /\ tr.pc = "trial"
    /\ \E t \in Geometries(OpenWidth(tr.openning_ratios, tr.openning_ratio_id)) :
         tr' = [pc |-> "done",
                openning_ratios |-> tr.openning_ratios,
                openning_ratio_id |-> tr.openning_ratio_id,
                min_contact_dist |-> tr.min_contact_dist,
                geometry |-> t,
                outcome |-> Trial(tr.openning_ratios, tr.openning_ratio_id,
                                  tr.min_contact_dist, t)]
    /\ UNCHANGED OtherThanTrial

NextTrial == RunTrial

SpecTrial == InitTrial /\ [][NextTrial]_vars

(***************************************************************************)
(* Properties of one antipodal trial                                       *)
(***************************************************************************)

\* The trial has run and its grasp was appended to the result.
TrialAccepted == tr.pc = "done" /\ tr.outcome.accepted

\* The width of the grasp as the contact search built it.
TrialGraspWidth == OpenWidth(tr.openning_ratios, tr.openning_ratio_id)

C4_AllStagesPassed ==
    tr.pc = "done" =>
        LET t == tr.geometry
            passed == /\ t.cone_x1
                      /\ t.search = "found"
                      /\ CloseFingers(t, 0, TrialGraspWidth)
                      /\ t.cone_c1
                      /\ t.cone_c2
                      /\ t.force_closure
        IN /\ tr.outcome.accepted => passed
           /\ tr.outcome.accepted =>
                tr.outcome.calls = <<"cone_x1", "search", "close_fingers",
                                     "cone_c1", "cone_c2", "force_closure">>
           /\ ~passed => "grasp" \notin DOMAIN tr.outcome

\* A trial that returned a grasp.
C4_Witness ==
    /\ TrialAccepted
    /\ tr.geometry.force_closure
    /\ "grasp" \in DOMAIN tr.outcome

\* The ratio indices below openning_ratio_id at which the fingers close on
\* the returned grasp.
ClosingIndices ==
    { j \in 0..(tr.openning_ratio_id - 1) :
        CloseFingers(tr.geometry, tr.outcome.grasp.center,
                     OpenWidth(tr.openning_ratios, j)) }

FirstClosingIndex == CHOOSE j \in ClosingIndices : \A k \in ClosingIndices : j <= k

\* Width minimization: the first closing index decides the width, no
\* closing index leaves the original width, and a second pass changes
\* nothing.
WidthMinimized ==
    LET g == tr.outcome.grasp
    IN /\ ClosingIndices # {} =>
            g.max_grasp_width_ = OpenWidth(tr.openning_ratios, FirstClosingIndex)
       /\ ClosingIndices = {} =>
            g.max_grasp_width_ = tr.outcome.original_max_width
       /\ MinimizeWidth(tr.geometry, g.center, tr.openning_ratios,
                        tr.openning_ratio_id, 0, g.max_grasp_width_)
              = g.max_grasp_width_

\* The finger-closing search succeeds on the grasp as returned.
ReturnedGraspCloses ==
    CloseFingers(tr.geometry, tr.outcome.grasp.center,
                 tr.outcome.grasp.max_grasp_width_)

PrefixNotWider ==
    \A j \in 0..(tr.openning_ratio_id - 1) :
        tr.openning_ratios[j + 1] <= tr.openning_ratios[tr.openning_ratio_id + 1]

\* The minimization left the centre where the centre update of line 523
\* put it.
CenterKept == tr.outcome.grasp.center = tr.geometry.offset

\* C12 as stated: for every openning_ratios list, sorted or not, the width
\* of a returned grasp is positive and at most the width it was accepted
\* with, and the centre is as the centre update left it.
C12_NeverWider ==
    TrialAccepted =>
        /\ tr.outcome.grasp.max_grasp_width_ > 0
        /\ tr.outcome.grasp.max_grasp_width_ <= tr.outcome.original_max_width
        /\ CenterKept

\* C12 amended: the width of a returned grasp is positive, and it is the
\* width the grasp was accepted with or the width of a ratio before
\* openning_ratio_id; it is at most the accepted width exactly when no
\* earlier ratio closes or the first that closes is not above the ratio at
\* openning_ratio_id, which is so for every list whose earlier ratios are
\* not above that ratio (an ascending list).  A list out of order can widen
\* the grasp.  The centre is as the centre update left it.
C12_NotWiderWhenAscending ==
    TrialAccepted =>
        LET g == tr.outcome.grasp
            original_max_width == tr.outcome.original_max_width
        IN /\ g.max_grasp_width_ > 0
           /\ g.max_grasp_width_ \in
                {original_max_width}
                \cup { OpenWidth(tr.openning_ratios, j) :
                         j \in 0..(tr.openning_ratio_id - 1) }
           /\ g.max_grasp_width_ <= original_max_width
                <=> \/ ClosingIndices = {}
                    \/ OpenWidth(tr.openning_ratios, FirstClosingIndex)
                           <= original_max_width
           /\ PrefixNotWider => g.max_grasp_width_ <= original_max_width
           /\ CenterKept

\* A grasp sampled at index 1 of an ascending list, its centre moved by the
\* centre update, whose width went down to that of index 0.
C12_Witness ==
    /\ TrialAccepted
    /\ tr.openning_ratio_id = 1
    /\ tr.openning_ratios[1] < tr.openning_ratios[2]
    /\ tr.geometry.offset = 1
    /\ tr.outcome.grasp.center = 1
    /\ tr.outcome.grasp.max_grasp_width_ = OpenWidth(tr.openning_ratios, 0)
    /\ tr.outcome.grasp.max_grasp_width_ < tr.outcome.original_max_width

(***************************************************************************)
(* AntipodalGraspSampler.sample_grasps: the whole call (lines 457-548)     *)
(***************************************************************************)
MaxTrials == 2     \* most trials (surface points used times num_samples) of a call

\* Line 83: the default of max_num_surface_points.
DefaultMaxSurfacePoints == 100

\* All the orders in which the elements of the set S can be listed.
Orders(S) ==
    { f \in [1..Cardinality(S) -> S] :
        \A a, b \in 1..Cardinality(S) : f[a] = f[b] => a = b }

\* Lines 459 and 547: np.random.shuffle / random.shuffle of a list, as the
\* set of lists it can leave.
ShuffleWithRepeats(list) == [1..Len(list) -> { list[j] : j \in 1..Len(list) }]
Shuffle(list) ==
    { [j \in 1..Len(list) |-> list[p[j]]] : p \in Orders(1..Len(list)) }

\* Line 459 alone: the shuffled surface points, all of them.
AllSurfacePoints(num_surface, max_num_surface_points_) ==
    Orders(1..num_surface)

\* Lines 459-460: the shuffled surface points, cut to max_num_surface_points_.
\* Surface points are numbered 1..num_surface.
ShuffledSurfacePoints(num_surface, max_num_surface_points_) ==
    { SubSeq(order, 1, Min(max_num_surface_points_, num_surface)) :
        order \in Orders(1..num_surface) }

\* The configurations of a call: the ratio list in use, the index sampled
\* at, and the loop bounds.
AntipodalConfigs ==
    { [openning_ratios |-> [j \in 1..RatioSteps |-> j],
       openning_ratio_id |-> id, min_contact_dist |-> 1,
       num_samples |-> s, num_surface |-> n, max_num_surface_points_ |-> cap] :
        id \in {0, RatioSteps - 1}, s \in 0..MaxTrials, n \in 0..MaxTrials,
        cap \in {1, 2, DefaultMaxSurfacePoints} }

\* What one trial can end in under the ratio list of AntipodalConfigs, per
\* ratio index: every geometry is possible at every trial.
TrialOutcomes ==
    [id \in 0..(RatioSteps - 1) |->
        { Trial([j \in 1..RatioSteps |-> j], id, 1, t) :
            t \in Geometries(OpenWidth([j \in 1..RatioSteps |-> j], id)) }]

InitAntipodal ==
    /\ gg = Idle /\ tr = Idle /\ ug = Idle /\ ga = Idle /\ ds = Idle /\ sp = Idle
    /\ tc = Idle
    /\ \E c \in AntipodalConfigs :
         /\ Min(c.max_num_surface_points_, c.num_surface) * c.num_samples <= MaxTrials
         /\ ag = [pc |-> "start",
                  openning_ratios |-> c.openning_ratios,
                  openning_ratio_id |-> c.openning_ratio_id,
                  min_contact_dist |-> c.min_contact_dist,
                  num_samples |-> c.num_samples,
                  num_surface |-> c.num_surface,
                  max_num_surface_points_ |-> c.max_num_surface_points_,
                  shuffled_surface_points |-> <<>>,
                  k |-> 0, i |-> 0,
                  grasps |-> <<>>,
                  discovered |-> <<>>]

\* Lines 457-461: the surface points are shuffled and capped.
AntipodalBegin ==
    /\ ag.pc = "start"
    /\ \E pts \in ShuffledSurfacePoints(ag.num_surface, ag.max_num_surface_points_) :
         ag' = [ag EXCEPT !.pc = "loop", !.shuffled_surface_points = pts]
    /\ UNCHANGED OtherThanAntipodal

\* The loops of lines 463 and 467 have a trial left to run.
TrialLeft ==
    /\ ag.k < Len(ag.shuffled_surface_points)
    /\ ag.num_samples > 0

\* Lines 467-544: trial i of surface point k.  An accepted grasp is appended
\* (line 544); discovered keeps the grasps in the order of their acceptance.
AntipodalTrial ==
    /\ ag.pc = "loop"
    /\ TrialLeft
    /\ \E o \in TrialOutcomes[ag.openning_ratio_id] :
         LET g == [point |-> ag.shuffled_surface_points[ag.k + 1],
                   sample |-> ag.i,
                   center |-> o.grasp.center,
                   max_grasp_width_ |-> o.grasp.max_grasp_width_]
             last == ag.i + 1 = ag.num_samples
         IN ag' = [ag EXCEPT
                     !.grasps = IF o.accepted THEN Append(@, g) ELSE @,
                     !.discovered = IF o.accepted THEN Append(@, g) ELSE @,
                     !.i = IF last THEN 0 ELSE ag.i + 1,
                     !.k = IF last THEN ag.k + 1 ELSE ag.k]
    /\ UNCHANGED OtherThanAntipodal

\* Lines 546-548: the list is shuffled in place and returned.
AntipodalReturn ==
    /\ ag.pc = "loop"
    /\ ~TrialLeft
    /\ \E shuffled \in Shuffle(ag.grasps) :
         ag' = [ag EXCEPT !.pc = "done", !.grasps = shuffled]
    /\ UNCHANGED OtherThanAntipodal

NextAntipodal == AntipodalBegin \/ AntipodalTrial \/ AntipodalReturn

SpecAntipodal == InitAntipodal /\ [][NextAntipodal]_vars

(***************************************************************************)
(* Properties of the antipodal sampler's result                            *)
(***************************************************************************)

\* C10 as stated: the returned list holds the accepted grasps in the order
\* in which their trials were accepted.
C10_DiscoveryOrder ==
    ag.pc = "done" => ag.grasps = ag.discovered

\* C10 amended: the returned list is a rearrangement of the accepted grasps
\* (every accepted grasp exactly once, nothing else), in the arbitrary order
\* random.shuffle leaves; until the shuffle of line 547 the list is in
\* discovery order.
C10_ShuffledDiscoveries ==
    /\ ag.pc = "loop" => ag.grasps = ag.discovered
    /\ ag.pc = "done" =>
         /\ Len(ag.grasps) = Len(ag.discovered)
         /\ \A j \in 1..Len(ag.discovered) :
              Cardinality({ m \in 1..Len(ag.grasps) :
                              ag.grasps[m] = ag.discovered[j] }) = 1

\* A call that returned two or more grasps in another order than found.
C10_Witness ==
    /\ ag.pc = "done"
    /\ Len(ag.discovered) >= 2
    /\ ag.grasps # ag.discovered

\* The surface points a call works on.
PointsUsed == Min(ag.max_num_surface_points_, ag.num_surface)

\* The trials run so far: num_samples for each finished point, i for the
\* point in work.
TrialsRun == ag.k * ag.num_samples + ag.i

\* Every way a trial can end: it made its geometric calls in the fixed
\* order up to the first failure, a failure leaves no grasp behind, and an
\* accepted trial leaves one grasp.
OutcomeDropsOrAccepts(o) ==
    LET stages == <<"cone_x1", "search", "close_fingers", "cone_c1",
                    "cone_c2", "force_closure">>
    IN /\ \E n \in 1..Len(stages) : o.calls = SubSeq(stages, 1, n)
       /\ ~o.accepted => "grasp" \notin DOMAIN o
       /\ o.accepted => o.calls = stages /\ "grasp" \in DOMAIN o

\* C13: a failure of any stage of a trial drops that trial only: the loop
\* goes on to the next trial, nothing is retried and nothing is raised.  A
\* call works on min(max_num_surface_points, number of surface points)
\* points with num_samples trials each, a trial appends at most one grasp,
\* so at most min(max_num_surface_points, number of surface points) *
\* num_samples grasps are returned; a call in which every trial was dropped
\* returns the empty list.
C13_DropsOnlyTheTrial ==
    /\ [](\A id \in DOMAIN TrialOutcomes :
            \A o \in TrialOutcomes[id] : OutcomeDropsOrAccepts(o))
    /\ [](ag.pc \in {"loop", "done"} =>
            /\ Len(ag.shuffled_surface_points) = PointsUsed
            /\ ag.i < Max1(ag.num_samples)
            /\ TrialsRun <= PointsUsed * ag.num_samples
            /\ Len(ag.discovered) <= TrialsRun
            /\ Len(ag.grasps) <= PointsUsed * ag.num_samples)
    /\ [](ag.pc = "done" =>
            /\ TrialsRun = PointsUsed * ag.num_samples
            /\ Len(ag.discovered) = 0 => ag.grasps = <<>>)
    /\ [][(ag.pc = "loop" /\ ag'.pc = "loop") =>
            /\ TrialsRun' = TrialsRun + 1
            /\ \/ ag'.grasps = ag.grasps
               \/ /\ Len(ag'.grasps) = Len(ag.grasps) + 1
                  /\ SubSeq(ag'.grasps, 1, Len(ag.grasps)) = ag.grasps]_vars

\* A call that ran as many trials as the model allows, all of them dropped,
\* has returned the empty list.
C13_Witness ==
    /\ ag.pc = "done"
    /\ PointsUsed * ag.num_samples = MaxTrials
    /\ TrialsRun = MaxTrials
    /\ ag.grasps = <<>>

(***************************************************************************)
(* UniformGraspSampler.sample_grasps (lines 264-291)                       *)
(*                                                                         *)
(* Surface points are distinct positions on a line; the distance of two of *)
(* them is the absolute difference of their positions.                     *)
(***************************************************************************)
MaxPosition == 3       \* surface points lie at positions 0..MaxPosition
MaxNumGrasps == 2      \* largest num_grasps
MaxNumSamples == 3     \* largest max_num_samples

\* self.gripper of the uniform sampler's runs: only a separation of 2 lies
\* strictly between min_width and max_width.
UniformGripper == [min_width |-> 1, max_width |-> 3]

Abs(x) == IF x < 0 THEN -x ELSE x

\* graspable.sdf.surface_points: the points of a set of positions, in
\* ascending order.
RECURSIVE SurfaceArray(_)
SurfaceArray(S) ==
    IF S = {} THEN <<>>
    ELSE LET m == CHOOSE x \in S : \A y \in S : x <= y
         IN <<m>> \o SurfaceArray(S \ {m})

\* Line 272: np.random.choice(num_surface, size=2, replace=False), two
\* distinct 0-based indices.
ChoosePair(num_surface) ==
    { <<a, b>> : a \in 0..(num_surface - 1), b \in 0..(num_surface - 1) }
        \ { <<a, a>> : a \in 0..(num_surface - 1) }

\* Line 270: the loop condition.
UniformWhileCondition(s) ==
    Len(s.grasps) < s.num_grasps /\ s.i < s.max_num_samples

\* Line 276: the separation lies strictly inside the gripper's range.
InGripperRangeInclusive(sep, gripper) ==
    sep >= gripper.min_width /\ sep <= gripper.max_width
InGripperRange(sep, gripper) ==
    sep > gripper.min_width /\ sep < gripper.max_width

InitUniform ==
    /\ gg = Idle /\ tr = Idle /\ ag = Idle /\ ga = Idle /\ ds = Idle /\ sp = Idle
    /\ tc = Idle
    /\ \E S \in SUBSET (0..MaxPosition), n \in 0..MaxNumGrasps,
          m \in 0..MaxNumSamples :
         ug = [pc |-> "loop",
               surface_points |-> SurfaceArray(S),
               num_grasps |-> n,
               max_num_samples |-> m,
               i |-> 0,
               grasps |-> <<>>]

\* Lines 270-289: one pass of the loop.  A pair in range gives a grasp at
\* the pair's midpoint with the gripper's maximum width; the grasp is kept
\* if close_fingers succeeds, which is up to the object.  The grasp records
\* the pair it was built from and the answer of close_fingers.
UniformDraw ==
    /\ ug.pc = "loop"
    /\ UniformWhileCondition(ug)
    /\ Len(ug.surface_points) >= 2
    /\ \E indices \in ChoosePair(Len(ug.surface_points)), success \in BOOLEAN :
         LET c0 == ug.surface_points[indices[1] + 1]
             c1 == ug.surface_points[indices[2] + 1]
             g == [c0 |-> c0, c1 |-> c1,
                   max_grasp_width_ |-> UniformGripper.max_width,
                   success |-> success]
         IN ug' = [ug EXCEPT
                     !.grasps =
                         IF InGripperRange(Abs(c1 - c0), UniformGripper) /\ success
                         THEN Append(@, g) ELSE @,
                     !.i = ug.i + 1]
    /\ UNCHANGED OtherThanUniform

\* Line 272 with fewer than two surface points: np.random.choice cannot
\* draw two distinct indices and raises ValueError.
UniformRaise ==
    /\ ug.pc = "loop"
    /\ UniformWhileCondition(ug)
    /\ Len(ug.surface_points) < 2
    /\ ug' = [ug EXCEPT !.pc = "raised"]
    /\ UNCHANGED OtherThanUniform

\* Line 291: the loop is over, the list is returned.
UniformReturn ==
    /\ ug.pc = "loop"
    /\ ~UniformWhileCondition(ug)
    /\ ug' = [ug EXCEPT !.pc = "done"]
    /\ UNCHANGED OtherThanUniform

NextUniform == UniformDraw \/ UniformRaise \/ UniformReturn

SpecUniform == InitUniform /\ [][NextUniform]_vars

\* C6: the uniform sampler returns at most num_grasps grasps and draws at
\* most max_num_samples pairs (i counts every draw, accepted or not); it
\* returns as soon as num_grasps grasps are collected or the cap is reached;
\* every grasp it holds was built from a drawn pair whose separation is
\* strictly between gripper.min_width and gripper.max_width and on which
\* close_fingers succeeded.
C6_UniformBounded ==
    ug.pc # "idle" =>
        /\ Len(ug.grasps) <= ug.num_grasps
        /\ ug.i <= ug.max_num_samples
        /\ Len(ug.grasps) <= ug.i
        /\ ug.pc = "done" =>
             (Len(ug.grasps) = ug.num_grasps \/ ug.i = ug.max_num_samples)
        /\ \A j \in 1..Len(ug.grasps) :
             LET g == ug.grasps[j]
             IN /\ Abs(g.c1 - g.c0) > UniformGripper.min_width
                /\ Abs(g.c1 - g.c0) < UniformGripper.max_width
                /\ g.success

\* A call that stopped at the cap with a partial result after rejecting a
\* draw.
C6_Witness ==
    /\ ug.pc = "done"
    /\ ug.i = ug.max_num_samples
    /\ Len(ug.grasps) >= 1
    /\ Len(ug.grasps) < ug.i
    /\ Len(ug.grasps) < ug.num_grasps

(***************************************************************************)
(* GaussianGraspSampler.sample_grasps (lines 319-369)                      *)
(***************************************************************************)
MaxCandidates == 3     \* largest num_grasps of the Gaussian sampler

\* What close_fingers can answer for a candidate built at
\* gripper.max_width: no contacts, or contacts some distance apart.
CandidateClosures ==
    { [contacts_found |-> FALSE, sep |-> 0] }
    \cup { [contacts_found |-> TRUE, sep |-> d] : d \in 0..GripperMaxWidth }

\* Line 342: the candidate has valid contacts.
ValidContactsInclusive(c, min_contact_dist) ==
    c.contacts_found /\ c.sep >= min_contact_dist
ValidContacts(c, min_contact_dist) ==
    c.contacts_found /\ c.sep > min_contact_dist

InitGaussian ==
    /\ gg = Idle /\ tr = Idle /\ ag = Idle /\ ug = Idle /\ ds = Idle /\ sp = Idle
    /\ tc = Idle
    /\ \E n \in 0..MaxCandidates, m \in 0..GripperMaxWidth :
         ga = [pc |-> "sample",
               num_grasps |-> n,
               min_contact_dist |-> m,
               num_candidates |-> 0,
               i |-> 0,
               evaluated |-> <<>>,
               grasps |-> <<>>]

\* Lines 319-336: num_grasps centres and num_grasps directions are drawn at
\* once.
GaussianSample ==
    /\ ga.pc = "sample"
    /\ ga' = [ga EXCEPT !.pc = "loop", !.num_candidates = ga.num_grasps]
    /\ UNCHANGED OtherThanGaussian

\* Lines 337-343: candidate i is built at gripper.max_width and closed; it
\* is appended if it has valid contacts.  evaluated records what
\* close_fingers answered for each candidate, in order.
GaussianCandidate ==
    /\ ga.pc = "loop"
    /\ ga.i < ga.num_grasps
    /\ \E c \in CandidateClosures :
         LET cand == [candidate |-> ga.i, contacts_found |-> c.contacts_found,
                      sep |-> c.sep]
         IN ga' = [ga EXCEPT
                     !.evaluated = Append(@, cand),
                     !.grasps = IF ValidContacts(c, ga.min_contact_dist)
                                THEN Append(@, cand) ELSE @,
                     !.i = ga.i + 1]
    /\ UNCHANGED OtherThanGaussian

\* Line 369: the loop of line 337 is over (vis is off), the list is returned.
GaussianReturn ==
    /\ ga.pc = "loop"
    /\ ga.i >= ga.num_grasps
    /\ ga' = [ga EXCEPT !.pc = "done"]
    /\ UNCHANGED OtherThanGaussian

NextGaussian == GaussianSample \/ GaussianCandidate \/ GaussianReturn

SpecGaussian == InitGaussian /\ [][NextGaussian]_vars

\* The candidates in the list returned.
Returned(list) == { list[j] : j \in 1..Len(list) }

MaxDownGrasps == 3     \* most grasps handed to down_sample_grasps
MaxDownIter == 3       \* largest max_iter tried besides the default

\* Line 103: the default of max_iter.
DefaultDownMaxIter == 20

\* The feature vectors of the inputs: four that are pairwise equally far
\* apart, one close to them and one far from them.
FeaturePalette ==
    { <<0, 0, 0>>, <<1, 1, 0>>, <<1, 0, 1>>, <<0, 1, 1>>, <<1, 0, 0>>, <<4, 0, 0>> }

\* The square of np.linalg.norm(a - b).
Dist2(a, b) ==
    (a[1] - b[1]) * (a[1] - b[1]) + (a[2] - b[2]) * (a[2] - b[2])
        + (a[3] - b[3]) * (a[3] - b[3])

\* Lines 116-121: the largest pairwise distance (squared), 0 for no points.
MaxDist2(datapoints) ==
    LET ds2 == { Dist2(datapoints[a], datapoints[b]) :
                   a \in 1..Len(datapoints), b \in 1..Len(datapoints) } \cup {0}
    IN CHOOSE m \in ds2 : \A d \in ds2 : d <= m

\* 4^h, or some number above cap when 4^h is above cap.
RECURSIVE Pow4Sat(_, _)
Pow4Sat(h, cap) ==
    IF h = 0 THEN 1
    ELSE LET q == Pow4Sat(h - 1, cap) IN IF q > cap THEN q ELSE 4 * q

\* Line 138: min_dist > dist_thresh for a distance of square d2, the
\* threshold being sqrt(th.sq) / 2^th.halvings.  Once 4^halvings exceeds
\* th.sq, every d2 >= 1 is above the threshold and 0 is not.
ExceedsOrEqual(d2, th) == d2 * Pow4Sat(th.halvings, th.sq) >= th.sq
Exceeds(d2, th) == d2 * Pow4Sat(th.halvings, th.sq) > th.sq

\* Lines 129-138: the smallest distance from datapoint i (0-based) to the
\* points of sampled_ids and of cur_sampled_ids is above the threshold
\* (np.inf, hence above it, when both lists are empty).
FarFromSelected(datapoints, i, sampled_ids, cur_sampled_ids, th) ==
    \A j \in { sampled_ids[m] : m \in 1..Len(sampled_ids) }
             \cup { cur_sampled_ids[m] : m \in 1..Len(cur_sampled_ids) } :
        Exceeds(Dist2(datapoints[i + 1], datapoints[j + 1]), th)

\* Lines 128-139: the scan of one round from datapoint i on; the result is
\* cur_sampled_ids.
RECURSIVE ScanRound(_, _, _, _, _)
ScanRound(datapoints, i, sampled_ids, cur_sampled_ids, th) ==
    IF i >= Len(datapoints) THEN cur_sampled_ids
    ELSE ScanRound(datapoints, i + 1, sampled_ids,
                   IF FarFromSelected(datapoints, i, sampled_ids,
                                      cur_sampled_ids, th)
                   THEN Append(cur_sampled_ids, i) ELSE cur_sampled_ids,
                   th)

\* Lines 140-142: more points than the quota leaves room for are shuffled
\* and cut to the room left.
TruncateRound(cur_sampled_ids, num_samples_remaining) ==
    IF Len(cur_sampled_ids) > num_samples_remaining
    THEN { SubSeq(sh, 1, num_samples_remaining) : sh \in Shuffle(cur_sampled_ids) }
    ELSE {cur_sampled_ids}

\* Line 144: dist_thresh /= 2.0.
NoHalve(th) == th
Halve(th) == [th EXCEPT !.halvings = @ + 1]

\* Line 125: the loop condition.
DownWhileCondition(s) ==
    Len(s.sampled_ids) < s.num_samples /\ s.it < s.max_iter

InitDownSample ==
    /\ gg = Idle /\ tr = Idle /\ ag = Idle /\ ug = Idle /\ ga = Idle /\ sp = Idle
    /\ tc = Idle
    /\ \E n \in 0..MaxDownGrasps :
         \E dp \in [1..n -> FeaturePalette],
            q \in 0..(MaxDownGrasps + 1),
            m \in (0..MaxDownIter) \cup {DefaultDownMaxIter} :
           ds = [pc |-> "features",
                 datapoints |-> dp,
                 num_samples |-> q,
                 max_iter |-> m,
                 max_dist |-> 0,
                 dist_thresh |-> [sq |-> 0, halvings |-> 0],
                 sampled_ids |-> <<>>,
                 it |-> 0]

\* Lines 104-124: the features are built, their largest distance becomes
\* the first threshold.
DownSampleSetup ==
    /\ ds.pc = "features"
    /\ ds' = [ds EXCEPT
                !.pc = "loop",
                !.max_dist = MaxDist2(ds.datapoints),
                !.dist_thresh = [sq |-> MaxDist2(ds.datapoints), halvings |-> 0],
                !.sampled_ids = <<>>,
                !.it = 1]
    /\ UNCHANGED OtherThanDownSample

\* Lines 125-145: one round.
DownSampleRound ==
    /\ ds.pc = "loop"
    /\ DownWhileCondition(ds)
    /\ LET num_samples_remaining == ds.num_samples - Len(ds.sampled_ids)
           scanned == ScanRound(ds.datapoints, 0, ds.sampled_ids, <<>>,
                                ds.dist_thresh)
       IN \E cur_sampled_ids \in TruncateRound(scanned, num_samples_remaining) :
            ds' = [ds EXCEPT
                     !.sampled_ids = ds.sampled_ids \o cur_sampled_ids,
                     !.dist_thresh = Halve(ds.dist_thresh),
                     !.it = ds.it + 1]
    /\ UNCHANGED OtherThanDownSample

\* Line 147: the grasps at the selected indices are returned.
DownSampleReturn ==
    /\ ds.pc = "loop"
    /\ ~DownWhileCondition(ds)
    /\ ds' = [ds EXCEPT !.pc = "done"]
    /\ UNCHANGED OtherThanDownSample

NextDownSample == DownSampleSetup \/ DownSampleRound \/ DownSampleReturn

SpecDownSample == InitDownSample /\ [][NextDownSample]_vars

(***************************************************************************)
(* Properties of down_sample_grasps                                        *)
(***************************************************************************)

\* The ids in the list sampled_ids.
SampledIds == { ds.sampled_ids[m] : m \in 1..Len(ds.sampled_ids) }

\* The pairs of distinct datapoints (1-based positions).
DistinctPairs ==
    { p \in (1..Len(ds.datapoints)) \X (1..Len(ds.datapoints)) : p[1] # p[2] }

\* The threshold of the last round a call runs when the quota is never met:
\* rounds 1..max_iter-1 run, round r with max_dist / 2^(r-1).
LastThreshold == [sq |-> ds.max_dist, halvings |-> ds.max_iter - 2]

\* Every two datapoints are further apart than the last round's threshold.
AllApartAtLast ==
    \A p \in DistinctPairs :
        Exceeds(Dist2(ds.datapoints[p[1]], ds.datapoints[p[2]]), LastThreshold)

\* Two of the datapoints are the same feature vector.
HasIdentical ==
    \E p \in DistinctPairs : ds.datapoints[p[1]] = ds.datapoints[p[2]]

\* C8 as stated: a call with fewer grasps than num_samples (max_iter left
\* at its default) returns as many grasps as it was given, whatever the
\* feature vectors are.
C8_ReturnsAll ==
    (ds.pc = "done" /\ Len(ds.datapoints) < ds.num_samples
        /\ ds.max_iter = DefaultDownMaxIter)
    => Len(ds.sampled_ids) = Len(ds.datapoints)

\* C8: a call with fewer grasps than num_samples returns ids of the input,
\* none twice, hence at most as many grasps as it was given; it returns
\* every input grasp exactly when the input is empty, or at least one round
\* runs and every two feature vectors are further apart than
\* max_dist / 2^(max_iter - 2), the threshold of the last round.  Identical
\* feature vectors, or vectors closer than that, leave grasps out.
C8_ReturnsSeparated ==
    (ds.pc = "done" /\ Len(ds.datapoints) < ds.num_samples)
    => /\ SampledIds \subseteq 0..(Len(ds.datapoints) - 1)
       /\ Cardinality(SampledIds) = Len(ds.sampled_ids)
       /\ Len(ds.sampled_ids) <= Len(ds.datapoints)
       /\ Len(ds.sampled_ids) = Len(ds.datapoints)
            <=> \/ Len(ds.datapoints) = 0
                \/ ds.max_iter >= 2 /\ AllApartAtLast
       /\ HasIdentical => Len(ds.sampled_ids) < Len(ds.datapoints)

\* A default call with three grasps, two of them with the same feature
\* vector, and room for more: two grasps are returned.
C8_Witness ==
    /\ ds.pc = "done"
    /\ Len(ds.datapoints) = 3
    /\ ds.num_samples > 3
    /\ ds.max_iter = DefaultDownMaxIter
    /\ HasIdentical
    /\ Len(ds.sampled_ids) = 2

\* All pairwise distances of the datapoints equal one d > 0.
Equidistant ==
    \E d \in 1..MaxDist2(ds.datapoints) :
        \A p \in DistinctPairs :
            Dist2(ds.datapoints[p[1]], ds.datapoints[p[2]]) = d

\* The call C9 is about.
EquidistantDefault ==
    /\ ds.pc \in {"loop", "done"}
    /\ Len(ds.datapoints) >= 2
    /\ Equidistant
    /\ ds.max_iter = DefaultDownMaxIter

\* The number of points selected once `rounds` rounds have run on an
\* equidistant set: the first round takes datapoint 0 (the threshold is d),
\* the second every other one (the threshold is d / 2), up to the quota.
EquidistantCount(rounds) ==
    Min(ds.num_samples,
        IF rounds = 0 THEN 0
        ELSE IF rounds = 1 THEN 1 ELSE Len(ds.datapoints))

\* C9: on datapoints whose pairwise distances all equal d > 0, with the
\* default max_iter, the rounds go on selecting points until num_samples
\* are selected or every datapoint is; a round only appends to the
\* selection, so the count never decreases, and the call ends with
\* min(num_samples, number of datapoints) points.
C9_EquidistantSelection ==
    /\ [](EquidistantDefault =>
            /\ Len(ds.sampled_ids) = EquidistantCount(ds.it - 1)
            /\ Cardinality(SampledIds) = Len(ds.sampled_ids)
            /\ ds.pc = "done" =>
                 Len(ds.sampled_ids) =
                     Min(ds.num_samples, Len(ds.datapoints)))
    /\ [][EquidistantDefault =>
            /\ Len(ds'.sampled_ids) >= Len(ds.sampled_ids)
            /\ SubSeq(ds'.sampled_ids, 1, Len(ds.sampled_ids)) = ds.sampled_ids
            /\ (ds'.it # ds.it /\ Len(ds'.sampled_ids) = Len(ds.sampled_ids))
                 => Len(ds.sampled_ids) = Len(ds.datapoints)]_vars

\* Three equidistant datapoints and a quota of two: the first round took
\* datapoint 0, the second one of the two others, and the call returned.
C9_Witness ==
    /\ ds.pc = "done"
    /\ Len(ds.datapoints) = 3
    /\ Equidistant
    /\ ds.max_iter = DefaultDownMaxIter
    /\ ds.num_samples = 2
    /\ Len(ds.sampled_ids) = 2
    /\ ds.sampled_ids[1] = 0
    /\ ds.it = 3

\* The rounds of the loop of line 125 run so far: it starts at 1 (line 124)
\* and line 145 adds one per round.
RoundsRun == ds.it - 1

\* What C15 says of every state of the loop: no index twice, at most
\* num_samples of them.
SelectionWithinQuota ==
    ds.pc \in {"loop", "done"} =>
        /\ Cardinality(SampledIds) = Len(ds.sampled_ids)
        /\ Len(ds.sampled_ids) <= ds.num_samples

\* What C15 says of every round: the points it adds are farther than the
\* round's threshold from every point selected before them, and the
\* threshold is halved.
RoundSeparatesAndHalves ==
    (ds.pc = "loop" /\ ds'.pc = "loop") =>
        /\ ds'.dist_thresh.sq = ds.dist_thresh.sq
        /\ ds'.dist_thresh.halvings = ds.dist_thresh.halvings + 1
        /\ RoundsRun' = RoundsRun + 1
        /\ SubSeq(ds'.sampled_ids, 1, Len(ds.sampled_ids)) = ds.sampled_ids
        /\ \A m \in (Len(ds.sampled_ids) + 1)..Len(ds'.sampled_ids) :
             \A e \in 1..(m - 1) :
                 Exceeds(Dist2(ds.datapoints[ds'.sampled_ids[m] + 1],
                               ds.datapoints[ds'.sampled_ids[e] + 1]),
                         ds.dist_thresh)

\* C15 as stated: after every round the selected index list has no
\* duplicates and at most num_samples entries, every point added in a round
\* is farther than that round's threshold from every point selected before
\* it, the threshold is halved after each round, and the loop runs rounds
\* until the quota is met or max_iter rounds have been performed.
C15_RoundsUntilMaxIter ==
    /\ [](SelectionWithinQuota)
    /\ [](ds.pc = "done" =>
            \/ Len(ds.sampled_ids) >= ds.num_samples
            \/ RoundsRun = ds.max_iter)
    /\ [][RoundSeparatesAndHalves]_vars

\* What the code does: the same, except that the loop gives up after
\* max_iter - 1 rounds (none for max_iter <= 1).
C15_RoundsUntilMaxIterLessOne ==
    /\ [](SelectionWithinQuota)
    /\ [](ds.pc \in {"loop", "done"} =>
            RoundsRun <= (IF ds.max_iter >= 1 THEN ds.max_iter - 1 ELSE 0))
    /\ [](ds.pc = "done" =>
            \/ Len(ds.sampled_ids) >= ds.num_samples
            \/ RoundsRun = (IF ds.max_iter >= 1 THEN ds.max_iter - 1 ELSE 0))
    /\ [][RoundSeparatesAndHalves]_vars

\* A call with max_iter = 3 has returned short of its quota after two
\* rounds.
C15_Witness ==
    /\ ds.pc = "done"
    /\ ds.max_iter = 3
    /\ Len(ds.sampled_ids) < ds.num_samples
    /\ Len(ds.sampled_ids) < Len(ds.datapoints)
    /\ RoundsRun = 2

(***************************************************************************)
(* GraspSampler.generate_grasps_stable_poses (lines 149-185)               *)
(***************************************************************************)
MaxPoses == 2      \* most stable poses of one call

\* The ids of the stable poses, as read from the database.
PoseIds == 1..MaxPoses

\* Line 174: the keyword arguments of the call of generate_grasps.
GenerateCallKeywords ==
    {"target_num_grasps", "grasp_gen_mult", "max_iter", "vis"}

\* Line 187: the named parameters of generate_grasps besides self.
GenerateParameters ==
    {"graspable", "target_num_grasps_per_size", "grasp_gen_mult", "max_iter",
     "sample_approach_angles", "vis"}

\* Line 187: the keywords that no named parameter takes end up in **kwargs.
CollectedKwargs(keywords) == keywords \ GenerateParameters

\* Line 183: grasp.perpendicular_table(grasp), deep-copied by line 184.
PerpendicularTable(grasp) == [aligned |-> grasp]

\* Lines 182-184: the aligned copies of the unaligned grasps, in their order.
AlignedGrasps(unaligned_grasps) ==
    [j \in 1..Len(unaligned_grasps) |-> PerpendicularTable(unaligned_grasps[j])]

InitStablePoses ==
    /\ gg = Idle /\ tr = Idle /\ ag = Idle /\ ug = Idle /\ ga = Idle /\ ds = Idle
    /\ tc = Idle
    /\ \E c \in GenerateConfigs, ids \in SUBSET PoseIds :
         \E stable_poses \in Orders(ids) :
           sp = [pc |-> "call",
                 config |-> c,
                 stable_poses |-> stable_poses,
                 unaligned_grasps |-> <<>>,
                 grasps |-> <<>>,
                 done_poses |-> 0]

\* Lines 174-176: generate_grasps is called on the same sampler, with
\* target_num_grasps passed by keyword.
StableCall ==
    /\ sp.pc = "call"
    /\ sp' = [sp EXCEPT !.pc = "generate"]
    /\ gg' = GenerateEntry(sp.config, CollectedKwargs(GenerateCallKeywords))
    /\ UNCHANGED <<tr, ag, ug, ga, ds, tc>>

\* Lines 174-179: generate_grasps has returned its (shuffled) list.
StableUnaligned ==
    /\ sp.pc = "generate"
    /\ gg.pc = "done"
    /\ \E unaligned_grasps \in Orders(gg.grasps) :
         sp' = [sp EXCEPT !.pc = "align",
                          !.unaligned_grasps = unaligned_grasps,
                          !.grasps = <<>>,
                          !.done_poses = 0]
    /\ UNCHANGED OtherThanStablePoses

\* Lines 180-184: the entry of the next stable pose.  grasps is the dict, a
\* function from pose ids to lists.
AlignPose ==
    /\ sp.pc = "align"
    /\ sp.done_poses < Len(sp.stable_poses)
    /\ LET id == sp.stable_poses[sp.done_poses + 1]
       IN sp' = [sp EXCEPT
                   !.grasps = [p \in (DOMAIN sp.grasps) \cup {id} |->
                                 IF p = id THEN AlignedGrasps(sp.unaligned_grasps)
                                 ELSE sp.grasps[p]],
                   !.done_poses = sp.done_poses + 1]
    /\ UNCHANGED OtherThanStablePoses

\* Line 185: return grasps.
StableReturn ==
    /\ sp.pc = "align"
    /\ sp.done_poses = Len(sp.stable_poses)
    /\ sp' = [sp EXCEPT !.pc = "done"]
    /\ UNCHANGED OtherThanStablePoses

\* The steps of a call.  SampleRound is not among them: the kwargs of the
\* call of line 174 always hold target_num_grasps, so that a sampling round
\* that is due raises (C11_NoRoundReturns).
NextStablePoses ==
    \/ StableCall
    \/ ForRatio
    \/ SampleRaise
    \/ EndRatio
    \/ ReturnGrasps
    \/ StableUnaligned
    \/ AlignPose
    \/ StableReturn

SpecStablePoses == InitStablePoses /\ [][NextStablePoses]_vars

\* The ids of the stable poses of the call.
StablePoseIds == { sp.stable_poses[j] : j \in 1..Len(sp.stable_poses) }

\* Some sampling round is due in a run of generate_grasps on configuration c.
RoundDue(c) ==
    /\ Len(c.openning_ratios) > 0
    /\ c.target_num_grasps_per_size > 0
    /\ c.max_iter >= 1

\* C11 as stated: generate_grasps_stable_poses, run on an
\* AntipodalGraspSampler, completes without error and returns a mapping
\* with exactly one entry per stable pose id, each entry holding one aligned
\* grasp for every grasp of the unaligned set, in the same order.
C11_StablePosesComplete ==
    /\ sp.pc # "raised"
    /\ sp.pc = "done" =>
         /\ DOMAIN sp.grasps = StablePoseIds
         /\ \A id \in StablePoseIds :
              sp.grasps[id] = AlignedGrasps(sp.unaligned_grasps)

\* What the code does instead: while generate_grasps runs for
\* generate_grasps_stable_poses no sampling round can return, and the call
\* ends in TypeError exactly when a round is due; it returns only when no
\* round is due, with an empty list for every pose.
C11_NoRoundReturns ==
    /\ sp.pc = "generate" => ~ENABLED SampleRound
    /\ sp.pc = "raised" => RoundDue(sp.config)
    /\ sp.pc = "done" =>
         /\ ~RoundDue(sp.config)
         /\ DOMAIN sp.grasps = StablePoseIds
         /\ \A id \in StablePoseIds : sp.grasps[id] = <<>>

\* The first sampling round of a call with two stable poses has raised.
C11_Witness ==
    /\ sp.pc = "raised"
    /\ gg.pc = "raised"
    /\ Len(sp.stable_poses) = 2
    /\ gg.k = 1
    /\ gg.openning_ratio_id = 0

(***************************************************************************)
(* Termination conditions (src/dexnet/learning/termination_conditions.py)  *)
(*                                                                         *)
(* A condition is a record of its class and its attributes; a call has the *)
(* arguments k, cur_val and prev_val (the others are passed on unread by   *)
(* the classes modelled).  What a call returns is a Python value: "True",  *)
(* "False" or "None".                                                      *)
(***************************************************************************)
MaxChildren == 2   \* longest term_conditions list
MaxK == 2          \* largest k and max_iters

PyBool(b) == IF b THEN "True" ELSE "False"

\* The conditions that have no children.
LeafConditions ==
    { [class |-> "MaxIter", max_iters_ |-> m] : m \in 0..MaxK }
    \cup { [class |-> "Progress", eps_ |-> e] : e \in 0..1 }

\* Lines 95-96 and 113-114: the composite conditions.
CompositeConditions ==
    { [class |-> c, term_conditions_ |-> children] :
        c \in {"Or", "And"},
        children \in UNION { [1..n -> LeafConditions] : n \in 0..MaxChildren } }

CallArguments ==
    [k : 0..MaxK, cur_val : 0..1, prev_val : 0..1]

\* Line 53: MaxIterTerminationCondition.__call__.
MaxIterCall(c, a) == a.k >= c.max_iters_

\* Line 68: ProgressTerminationCondition.__call__.
ProgressCall(c, a) == Abs(a.cur_val - a.prev_val) < c.eps_

\* The call of a condition without children.
LeafCall(c, a) ==
    IF c.class = "MaxIter" THEN MaxIterCall(c, a) ELSE ProgressCall(c, a)

\* Lines 101 and 119: Python's `terminate or f()` calls f only if terminate
\* is false, `terminate and f()` only if terminate is true.
Invokes(class, terminate) ==
    IF class = "Or" THEN ~terminate ELSE terminate

InitTermination ==
    /\ gg = Idle /\ tr = Idle /\ ag = Idle /\ ug = Idle /\ ga = Idle /\ ds = Idle
    /\ sp = Idle
    /\ \E c \in LeafConditions \cup CompositeConditions, a \in CallArguments :
         tc = [pc |-> "call", cond |-> c, args |-> a, terminate |-> FALSE,
               index |-> 0, invoked |-> <<>>, result |-> "pending"]

\* Lines 52-53 and 67-68: a condition without children is called.
TermLeaf ==
    /\ tc.pc = "call"
    /\ tc.cond.class \in {"MaxIter", "Progress"}
    /\ tc' = [tc EXCEPT !.pc = "done",
                        !.result = PyBool(LeafCall(tc.cond, tc.args))]
    /\ UNCHANGED OtherThanTermination

\* Lines 99 and 117: terminate = False for OR, True for AND.
TermEnter ==
    /\ tc.pc = "call"
    /\ tc.cond.class \in {"Or", "And"}
    /\ tc' = [tc EXCEPT !.pc = "loop",
                        !.terminate = (tc.cond.class = "And"),
                        !.index = 0]
    /\ UNCHANGED OtherThanTermination

\* Lines 100-101 and 118-119: one iteration over term_conditions_; invoked
\* lists the (0-based) children called.
TermChild ==
    /\ tc.pc = "loop"
    /\ tc.index < Len(tc.cond.term_conditions_)
    /\ LET child == tc.cond.term_conditions_[tc.index + 1]
           called == Invokes(tc.cond.class, tc.terminate)
       IN tc' = [tc EXCEPT
                   !.terminate = IF called THEN LeafCall(child, tc.args) ELSE @,
                   !.invoked = IF called THEN Append(@, tc.index) ELSE @,
                   !.index = tc.index + 1]
    /\ UNCHANGED OtherThanTermination

\* Line 102: OR returns terminate.  AND has no return statement after the
\* loop of lines 118-119, and a Python function that ends without one
\* returns None.
TermReturn ==
    /\ tc.pc = "loop"
    /\ tc.index = Len(tc.cond.term_conditions_)
    /\ tc' = [tc EXCEPT !.pc = "done",
                        !.result = IF tc.cond.class = "Or"
                                   THEN PyBool(tc.terminate) ELSE "None"]
    /\ UNCHANGED OtherThanTermination

NextTermination == TermLeaf \/ TermEnter \/ TermChild \/ TermReturn

SpecTermination == InitTermination /\ [][NextTermination]_vars

\* The (0-based) children that return True for the arguments of the call.
TrueChildren ==
    { j \in 0..(Len(tc.cond.term_conditions_) - 1) :
        LeafCall(tc.cond.term_conditions_[j + 1], tc.args) }

AllChildren == 0..(Len(tc.cond.term_conditions_) - 1)

\* The children up to and including the first of `deciding`, all of them if
\* there is none, in list order.
UpToFirst(deciding) ==
    LET last == IF deciding = {} THEN Len(tc.cond.term_conditions_) - 1
                ELSE CHOOSE j \in deciding : \A m \in deciding : j <= m
    IN [j \in 1..(last + 1) |-> j - 1]

\* What the claim says of OrTerminationCondition and of
\* MaxIterTerminationCondition.
OrAndMaxIterAsStated ==
    /\ tc.cond.class = "Or" =>
         /\ tc.result = PyBool(TrueChildren # {})
         /\ tc.invoked = UpToFirst(TrueChildren)
    /\ tc.cond.class = "MaxIter" =>
         tc.result = PyBool(tc.args.k >= tc.cond.max_iters_)

C14_AndReturnsNone ==
    tc.pc = "done" =>
        /\ OrAndMaxIterAsStated
        /\ tc.cond.class = "And" =>
             /\ tc.result = "None"
             /\ tc.invoked = UpToFirst(AllChildren \ TrueChildren)

====
